---- MODULE Spec2Model ----
(***************************************************************************)
(* A model of importloader.py (ProjectImportAnalyzer and main): the symbol *)
(* index, the missing-import detector, the module resolver and the fix     *)
(* applier.                                                                *)
(*                                                                         *)
(* Strings are sequences of one-character strings, so that startswith,     *)
(* count, replace, split, join and the ordering of str are computed.       *)
(***************************************************************************)
EXTENDS Integers, Sequences, FiniteSets, TLC

(***************************************************************************)
(* Strings                                                                 *)
(***************************************************************************)

\* Code points of the characters the model uses (Python orders str by them).
Ord ==
  ("." :> 46) @@ ("/" :> 47) @@ ("K" :> 75) @@ ("N" :> 78) @@ ("S" :> 83)
  @@ ("Y" :> 89) @@ ("_" :> 95) @@ ("a" :> 97) @@ ("b" :> 98) @@ ("c" :> 99)
  @@ ("d" :> 100) @@ ("e" :> 101) @@ ("f" :> 102) @@ ("g" :> 103)
  @@ ("i" :> 105) @@ ("m" :> 109) @@ ("n" :> 110) @@ ("o" :> 111)
  @@ ("p" :> 112) @@ ("s" :> 115) @@ ("t" :> 116) @@ ("v" :> 118)
  @@ ("x" :> 120) @@ ("y" :> 121)

\* str.__lt__: lexicographic on code points, a proper prefix is smaller.
RECURSIVE StrLess(_, _)
StrLess(s, t) ==
  IF t = <<>> THEN FALSE
  ELSE IF s = <<>> THEN TRUE
  ELSE IF Ord[Head(s)] # Ord[Head(t)] THEN Ord[Head(s)] < Ord[Head(t)]
  ELSE StrLess(Tail(s), Tail(t))

\* str.startswith(prefix)
StartsWith(s, prefix) ==
  /\ Len(prefix) <= Len(s)
  /\ SubSeq(s, 1, Len(prefix)) = prefix

\* str.count(ch) for a one-character ch
RECURSIVE Count(_, _)
Count(s, ch) ==
  IF s = <<>> THEN 0
  ELSE (IF Head(s) = ch THEN 1 ELSE 0) + Count(Tail(s), ch)

\* str.replace(old, new): every non-overlapping occurrence, left to right.
RECURSIVE Replace(_, _, _)
Replace(s, old, new) ==
  IF s = <<>> THEN <<>>
  ELSE IF StartsWith(s, old)
       THEN new \o Replace(SubSeq(s, Len(old) + 1, Len(s)), old, new)
       ELSE <<Head(s)>> \o Replace(Tail(s), old, new)

\* sep.join(parts)
RECURSIVE Join(_, _)
Join(parts, sep) ==
  IF parts = <<>> THEN <<>>
  ELSE IF Len(parts) = 1 THEN parts[1]
  ELSE parts[1] \o sep \o Join(Tail(parts), sep)

\* s.split(ch) for a one-character ch: always at least one piece.
RECURSIVE Split(_, _)
Split(s, ch) ==
  IF s = <<>> THEN << <<>> >>
  ELSE LET rest == Split(Tail(s), ch)
       IN IF Head(s) = ch THEN << <<>> >> \o rest
          ELSE << <<Head(s)>> \o Head(rest) >> \o Tail(rest)

\* str.lower() on the letters the model uses.
LowerChar(c) ==
  CASE c = "Y" -> "y" [] c = "E" -> "e" [] c = "S" -> "s" [] c = "N" -> "n"
    [] c = "K" -> "k" [] OTHER -> c

Lower(s) == [i \in 1..Len(s) |-> LowerChar(s[i])]

\* The orderings of a finite set as sequences (the iteration orders of a
\* Python set, and the orders in which rglob may yield the files).
Orderings(S) ==
  {q \in [1..Cardinality(S) -> S] : \A i, j \in 1..Cardinality(S) : q[i] = q[j] => i = j}

Range(q) == {q[i] : i \in 1..Len(q)}

(***************************************************************************)
(* Paths and module names                                                  *)
(***************************************************************************)

DotPy == <<".", "p", "y">>
InitPy == <<"_", "_", "i", "n", "i", "t", "_", "_", ".", "p", "y">>

\* The value None (no tree, no selection); no string of the model equals it.
None == <<"None">>

\* ProjectImportAnalyzer.path_to_module_name
path_to_module_name(relative_path) ==
  LET last == relative_path[Len(relative_path)]
      front == SubSeq(relative_path, 1, Len(relative_path) - 1)
      parts == IF last = InitPy THEN front
               ELSE front \o <<Replace(last, DotPy, <<>>)>>
  IN IF parts # <<>> THEN Join(parts, <<".">>) ELSE <<>>

\* str(current_dir.relative_to(self.project_root)) with the path separators
\* replaced by '.': the empty relative path prints as ".".
current_package(current_file) ==
  LET dir == SubSeq(current_file, 1, Len(current_file) - 1)
      shown == IF dir = <<>> THEN <<".">> ELSE Join(dir, <<"/">>)
  IN Replace(shown, <<"/">>, <<".">>)

(***************************************************************************)
(* Module resolver                                                         *)
(***************************************************************************)

PreferLocal == 10
PreferSamePackage == 5

\* The score choose_best_module gives one candidate.
Score(module, current_file) ==
  (IF StartsWith(module, <<".">>) THEN PreferLocal ELSE 0)
  + (IF StartsWith(module, current_package(current_file)) THEN PreferSamePackage ELSE 0)
  - Count(module, ".")

\* Mutant: the sort looks at the score alone (sort(key=score, reverse=True)),
\* so equal scores keep the order in which the set was iterated.
PairLessScoreOnly(p, q) == p[1] < q[1]

\* Tuple order on (score, module), as list.sort compares the pairs.
PairLess(p, q) ==
  \/ p[1] < q[1]
  \/ p[1] = q[1] /\ StrLess(p[2], q[2])

\* list.sort(reverse=True): a stable insertion into descending order.
RECURSIVE InsertDesc(_, _)
InsertDesc(p, sorted) ==
  IF sorted = <<>> THEN <<p>>
  ELSE IF PairLess(Head(sorted), p) THEN <<p>> \o sorted
  ELSE <<Head(sorted)>> \o InsertDesc(p, Tail(sorted))

RECURSIVE SortDesc(_)
SortDesc(pairs) ==
  IF pairs = <<>> THEN <<>>
  ELSE InsertDesc(pairs[Len(pairs)], SortDesc(SubSeq(pairs, 1, Len(pairs) - 1)))

\* ProjectImportAnalyzer.choose_best_module; possible_modules is the set in
\* the order in which the for loop iterates it.
choose_best_module(possible_modules, current_file) ==
  IF possible_modules = <<>> THEN None
  ELSE LET scored_modules ==
             [i \in 1..Len(possible_modules) |->
                <<Score(possible_modules[i], current_file), possible_modules[i]>>]
       IN SortDesc(scored_modules)[1][2]

(***************************************************************************)
(* File text                                                               *)
(*                                                                         *)
(* A file's text is a sequence of items; NL is the newline character and   *)
(* every other item <<tag, mod, names>> stands for a run of characters     *)
(* without a newline:                                                      *)
(*   ws          whitespace                                                *)
(*   comment     a comment, from its hash sign on                          *)
(*   tq          a line holding one triple quote (opens or closes a string)*)
(*   doc1        a triple-quoted string that opens and closes on the line  *)
(*   text        words that are not Python (prose of a docstring)          *)
(*   def asyncdef class assign   a definition of names[1]                  *)
(*   use         names[1] read;  attr  names[1].mod read                   *)
(*   import      import mod                                                *)
(*   from        from mod import names    (mod . is from . import)         *)
(***************************************************************************)

NoStr == <<>>
NL == <<"nl", NoStr, <<>>>>
Ws == <<"ws", NoStr, <<>>>>
Comment == <<"comment", NoStr, <<>>>>
Tq == <<"tq", NoStr, <<>>>>
Doc1 == <<"doc1", NoStr, <<>>>>
Prose == <<"text", NoStr, <<>>>>
Def(s) == <<"def", NoStr, <<s>>>>
AsyncDef(s) == <<"asyncdef", NoStr, <<s>>>>
Class(s) == <<"class", NoStr, <<s>>>>
Assign(s) == <<"assign", NoStr, <<s>>>>
Use(s) == <<"use", NoStr, <<s>>>>
Attr(s, chain) == <<"attr", chain, <<s>>>>
Import(m) == <<"import", m, <<>>>>
From(m, names) == <<"from", m, names>>

\* content.split(newline) and newline.join(lines)
SplitLines(content) == Split(content, NL)
JoinLines(lines) == Join(lines, <<NL>>)

\* line.strip()
RECURSIVE LStrip(_)
LStrip(line) ==
  IF line # <<>> /\ Head(line) = Ws THEN LStrip(Tail(line)) ELSE line

RECURSIVE RStrip(_)
RStrip(line) ==
  IF line # <<>> /\ line[Len(line)] = Ws
  THEN RStrip(SubSeq(line, 1, Len(line) - 1)) ELSE line

Strip(line) == RStrip(LStrip(line))

\* stripped.startswith(('import ', 'from '))
StartsImport(stripped) ==
  stripped # <<>> /\ Head(stripped)[1] \in {"import", "from"}

\* stripped.startswith('#')
StartsHash(stripped) ==
  stripped # <<>> /\ Head(stripped)[1] = "comment"

\* stripped.startswith of either triple quote
StartsTripleQuote(stripped) ==
  stripped # <<>> /\ Head(stripped)[1] \in {"tq", "doc1"}

(***************************************************************************)
(* ast.parse, as far as the analyzer reads its result: the statements of   *)
(* the module in order, or None when the text does not parse.              *)
(***************************************************************************)

\* node.module of an ImportFrom: the dots of a relative import are its level.
RECURSIVE DropDots(_)
DropDots(m) ==
  IF m # <<>> /\ Head(m) = "." THEN DropDots(Tail(m)) ELSE m

NodeModule(node) == DropDots(node[2])

\* One line outside a string is a statement Python accepts.
ValidStatement(line) ==
  LET stripped == Strip(line)
      item == Head(stripped)
  IN /\ Len(stripped) = 1
     /\ item[1] # "text"
     /\ item[1] = "from" => item[2] # <<>> /\ item[3] # <<>>
     /\ item[1] = "import" => item[2] # <<>> /\ Head(item[2]) # "."
     \* an indented statement at module level is an IndentationError
     /\ LStrip(line) # line => item[1] = "comment"

RECURSIVE ParseLines(_, _, _)
ParseLines(lines, inString, tree) ==
  IF lines = <<>> THEN (IF inString THEN None ELSE tree)
  ELSE LET line == Head(lines)
           stripped == Strip(line)
       IN IF inString
          THEN IF \E k \in 1..Len(line) : line[k] = Doc1 THEN None
               ELSE IF \E k \in 1..Len(line) : line[k] = Tq
                    THEN (IF Len(stripped) = 1 THEN ParseLines(Tail(lines), FALSE, tree) ELSE None)
                    ELSE ParseLines(Tail(lines), TRUE, tree)
          ELSE IF stripped = <<>> THEN ParseLines(Tail(lines), FALSE, tree)
          ELSE IF ~ValidStatement(line) THEN None
          ELSE IF Head(stripped) = Tq THEN ParseLines(Tail(lines), TRUE, tree)
          ELSE IF Head(stripped)[1] \in {"comment", "doc1"}
               THEN ParseLines(Tail(lines), FALSE, tree)
          ELSE ParseLines(Tail(lines), FALSE, Append(tree, Head(stripped)))

\* Mutant: a parser that recovers from errors and returns what it could read.
RECURSIVE ParseLenient(_, _)
ParseLenient(lines, tree) ==
  IF lines = <<>> THEN tree
  ELSE LET stripped == Strip(Head(lines))
       IN IF Len(stripped) = 1 /\ ValidStatement(Head(lines))
             /\ Head(stripped)[1] \notin {"comment", "doc1", "tq"}
          THEN ParseLenient(Tail(lines), Append(tree, Head(stripped)))
          ELSE ParseLenient(Tail(lines), tree)

parse_file_lenient(content) == ParseLenient(SplitLines(content), <<>>)

\* ast.parse(content): the tree, or None for a SyntaxError.
ast_parse(content) == ParseLines(SplitLines(content), FALSE, <<>>)

\* ProjectImportAnalyzer.parse_file_safely: the tree, or None on any exception.
parse_file_safely(content) ==
  LET tree == ast_parse(content)
  IN IF tree = None THEN None ELSE tree

(***************************************************************************)
(* Symbol extraction                                                       *)
(***************************************************************************)

\* The names an Import or ImportFrom node adds in the three walks that
\* collect imports (alias.name.split('.')[0]; ImportFrom only if node.module).
ImportedBy(node) ==
  IF node[1] = "import" THEN {Split(node[2], ".")[1]}
  ELSE IF node[1] = "from" /\ NodeModule(node) # <<>> THEN Range(node[3])
  ELSE {}

\* ProjectImportAnalyzer.get_current_imports
get_current_imports(tree) ==
  UNION {ImportedBy(tree[k]) : k \in 1..Len(tree)}

\* ProjectImportAnalyzer.extract_defined_symbols
extract_defined_symbols(tree) ==
  UNION {IF tree[k][1] \in {"def", "asyncdef", "class", "assign"}
         THEN Range(tree[k][3])
         ELSE ImportedBy(tree[k]) : k \in 1..Len(tree)}

\* ProjectImportAnalyzer.extract_used_symbols
extract_used_symbols(tree) ==
  LET imported_symbols == UNION {ImportedBy(tree[k]) : k \in 1..Len(tree)}
  IN UNION {IF tree[k][1] \in {"use", "attr"}
            THEN Range(tree[k][3]) \ imported_symbols
            ELSE {} : k \in 1..Len(tree)}

(***************************************************************************)
(* Fix applier: the computation of add_imports_to_file                     *)
(***************************************************************************)

\* The loop that finds the insertion line, from line i (1-based) on.
RECURSIVE ScanInsert(_, _, _)
ScanInsert(lines, i, insert_line) ==
  IF i > Len(lines) THEN insert_line
  ELSE LET stripped == Strip(lines[i])
       IN IF StartsImport(stripped) \/ StartsHash(stripped)
          THEN ScanInsert(lines, i + 1, i)
          ELSE IF stripped # <<>> /\ ~StartsTripleQuote(stripped)
               THEN insert_line
               ELSE ScanInsert(lines, i + 1, insert_line)

\* Mutant: insert_line = i in place of i + 1, the imports go before the last
\* import or comment line of the leading block.
InsertLineBefore(lines) ==
  LET after == ScanInsert(lines, 1, 0)
  IN IF after = 0 THEN 0 ELSE after - 1

\* insert_line (0-based index = number of lines before the insertion)
InsertLine(lines) == ScanInsert(lines, 1, 0)

\* sorted(...) of a set of strings
RECURSIVE SortedStrs(_)
SortedStrs(S) ==
  IF S = {} THEN <<>>
  ELSE LET least == CHOOSE x \in S : \A y \in S \ {x} : StrLess(x, y)
       IN <<least>> \o SortedStrs(S \ {least})

\* by_module[module]: the entries of the list chosen from module, in list order.
BySymbols(missing, module) ==
  SelectSeq(missing, LAMBDA e : e[2] = module)

\* new_imports: one line per module, modules in sorted order.
NewImports(missing) ==
  LET modules == SortedStrs({missing[k][2] : k \in 1..Len(missing)})
  IN [j \in 1..Len(modules) |->
        LET symbols == BySymbols(missing, modules[j])
        IN IF Len(symbols) = 1
           THEN <<From(modules[j], <<symbols[1][1]>>)>>
           ELSE <<From(modules[j], SortedStrs({symbols[k][1] : k \in 1..Len(symbols)}))>>]

\* Mutant: the slice assignment replaces the line at the insertion point.
InsertReplacing(lines, at, new) ==
  SubSeq(lines, 1, at) \o new \o SubSeq(lines, at + 2, Len(lines))

\* lines[insert_line:insert_line] = new_imports
InsertAt(lines, at, new) ==
  SubSeq(lines, 1, at) \o new \o SubSeq(lines, at + 1, Len(lines))

\* The text add_imports_to_file writes for content and a missing list.
Rewritten(content, missing) ==
  LET lines == SplitLines(content)
  IN JoinLines(InsertAt(lines, InsertLine(lines), NewImports(missing)))

(***************************************************************************)
(* The projects the model runs over                                        *)
(***************************************************************************)

f == <<"f">>
K == <<"K">>
ModA == <<"a">>
ModOs == <<"o", "s">>

PathA == << <<"a", ".", "p", "y">> >>
PathB == << <<"b", ".", "p", "y">> >>
PathInit == << InitPy >>
PathAC == << <<"a">>, <<"c", ".", "p", "y">> >>
PathVenv == << <<"v", "e", "n", "v">>, <<"a", ".", "p", "y">> >>

\* exclude_dirs of find_python_files
exclude_dirs ==
  { <<"_", "_", "p", "y", "c", "a", "c", "h", "e", "_", "_">>,
    <<".", "g", "i", "t">>,
    <<".", "v", "e", "n", "v">>,
    <<"v", "e", "n", "v">>,
    <<"e", "n", "v">>,
    <<"n", "o", "d", "e", "_", "m", "o", "d", "u", "l", "e", "s">>,
    <<".", "p", "y", "t", "e", "s", "t", "_", "c", "a", "c", "h", "e">>,
    <<"b", "u", "i", "l", "d">>,
    <<"d", "i", "s", "t">>,
    <<".", "t", "o", "x">>,
    <<"h", "t", "m", "l", "c", "o", "v">> }

\* The files beside the consuming file b.py: what defines f and K.
Providers ==
  { (PathA :> JoinLines(<< <<Def(f)>>, <<Class(K)>>, <<>> >>)),
    (PathInit :> JoinLines(<< <<Def(f)>>, <<>> >>)),
    (PathA :> JoinLines(<< <<Assign(f)>>, <<>> >>))
      @@ (PathAC :> JoinLines(<< <<AsyncDef(f)>>, <<Use(K)>>, <<>> >>)),
    (PathA :> JoinLines(<< <<Def(f)>>, <<>> >>))
      @@ (PathAC :> JoinLines(<< <<Def(f)>>, <<Def(K)>>, <<Prose>>, <<>> >>)),
    (PathInit :> JoinLines(<< <<Def(f)>>, <<>> >>))
      @@ (PathVenv :> JoinLines(<< <<Def(f)>>, <<>> >>)) }

\* The leading lines of b.py.
Heads ==
  { <<>>,
    << <<Comment>> >>,
    << <<Tq>>, <<Comment>>, <<Tq>> >>,
    << <<Tq>>, <<Prose>>, <<Tq>> >>,
    << <<Doc1>>, <<Import(ModOs)>> >>,
    << <<Prose>> >>,
    << <<From(ModA, <<f>>)>>, <<>> >> }

\* The code of b.py after its leading lines.
Bodies ==
  { << <<Use(f)>>, <<>> >>,
    << <<Def(f)>>, <<Use(f)>>, <<>> >>,
    << <<From(<<".">>, <<f>>)>>, <<Use(f)>>, <<>> >>,
    << <<Class(K)>>, <<Use(f)>> >>,
    << <<Use(f)>>, <<Attr(K, <<"x">>)>>, <<>> >> }

Projects ==
  { p @@ (PathB :> JoinLines(h \o b)) : p \in Providers, h \in Heads, b \in Bodies }

\* What the user may type at the prompt.
Responses ==
  { <<"y">>, <<"Y", "e", "s">>, <<"n">>, <<>>, <<"y", "e">> }

(***************************************************************************)
(* State                                                                   *)
(***************************************************************************)

VARIABLES
  disk,            \* the project's files: relative path -> text
  args,            \* the parsed command line: [apply, fix]
  pc,              \* where main is
  python_files,    \* self.python_files
  idx,             \* the position of the running for loop (1-based)
  imports_map,     \* self.imports_map: symbol -> set of modules
  defined_symbols, \* self.defined_symbols: file -> set of symbols
  used_symbols,    \* self.used_symbols: file -> set of symbols
  missing_imports, \* self.missing_imports, in insertion order: <<file, list>>
  response,        \* what input() returned
  prompts,         \* the number of calls of input() in this run
  report,          \* the Fixed / Failed to fix lines printed, in order
  run,             \* the number of the run of main over this project
  disk0,           \* history: the disk when this run started
  prev,            \* history: the index and the findings of the run before
  r_set, r_file,   \* the resolver's inputs: candidate set and consuming file
  r_calls          \* the results of the calls of choose_best_module so far

analyzer == <<python_files, idx, imports_map, defined_symbols, used_symbols,
              missing_imports>>
resolver == <<r_set, r_file, r_calls>>
vars == <<disk, args, pc, analyzer, response, prompts, report, run, disk0, prev,
          resolver>>

MaxRuns == 2
MaxCandidates == 3
MaxCalls == 2
MaxLines == 3

EmptyMap == [x \in {} |-> {}]

Get(map, key) == IF key \in DOMAIN map THEN map[key] ELSE {}

\* if best_module: neither None nor the empty string
Truthy(s) == s # None /\ s # <<>>

\* Mutant: the response is compared as typed, without lower().
ConfirmedAsTyped(r) == r \in { <<"y">>, <<"y", "e", "s">> }

\* response.lower() in ['y', 'yes']
Confirmed(r) == Lower(r) \in { <<"y">>, <<"y", "e", "s">> }

NoHistory == [index |-> EmptyMap, missing |-> <<>>, report |-> <<>>, disk |-> EmptyMap]

ResolverIdle ==
  /\ r_set = {}
  /\ r_file = PathB
  /\ r_calls = <<>>

\* ProjectImportAnalyzer.__init__
Fresh ==
  /\ python_files = <<>>
  /\ idx = 1
  /\ imports_map = EmptyMap
  /\ defined_symbols = EmptyMap
  /\ used_symbols = EmptyMap
  /\ missing_imports = <<>>

Init ==
  /\ disk \in Projects
  /\ disk0 = disk
  /\ args \in [apply : BOOLEAN, fix : BOOLEAN]
  /\ pc = "start"
  /\ Fresh
  /\ response = None
  /\ prompts = 0
  /\ report = <<>>
  /\ run = 1
  /\ prev = NoHistory
  /\ ResolverIdle

(***************************************************************************)
(* scan_project                                                            *)
(***************************************************************************)

\* Where main goes when scan_project returns.
AfterScan ==
  IF ~args.apply THEN "done"
  ELSE IF ~args.fix THEN "prompt"
  ELSE IF missing_imports = <<>> THEN "done" ELSE "apply"

\* find_python_files: rglob yields the .py files in some order.
FindPythonFiles ==
  /\ pc = "start"
  /\ \E order \in Orderings({p \in DOMAIN disk :
                               \A k \in 1..Len(p) : p[k] \notin exclude_dirs}) :
       python_files' = order
  /\ pc' = "build"
  /\ idx' = 1
  /\ UNCHANGED <<disk, args, imports_map, defined_symbols, used_symbols,
                 missing_imports, response, prompts, report, run, disk0, prev,
                 resolver>>

\* One iteration of the loop of build_symbol_database.
BuildStep ==
  /\ pc = "build"
  /\ idx <= Len(python_files)
  /\ LET file_path == python_files[idx]
         tree == parse_file_safely(disk[file_path])
         module_name == path_to_module_name(file_path)
         defined == extract_defined_symbols(tree)
     IN IF tree = None
        THEN UNCHANGED <<imports_map, defined_symbols, used_symbols>>
        ELSE /\ defined_symbols' = (file_path :> defined) @@ defined_symbols
             /\ imports_map' =
                  [s \in DOMAIN imports_map \cup defined |->
                     Get(imports_map, s)
                       \cup (IF s \in defined THEN {module_name} ELSE {})]
             /\ used_symbols' = (file_path :> extract_used_symbols(tree)) @@ used_symbols
  /\ idx' = idx + 1
  /\ UNCHANGED <<disk, args, pc, python_files, missing_imports, response,
                 prompts, report, run, disk0, prev, resolver>>

\* build_symbol_database returns and analyze_missing_imports starts.
BuildDone ==
  /\ pc = "build"
  /\ idx > Len(python_files)
  /\ pc' = "analyze"
  /\ idx' = 1
  /\ UNCHANGED <<disk, args, python_files, imports_map, defined_symbols,
                 used_symbols, missing_imports, response, prompts, report, run,
                 disk0, prev, resolver>>

\* The list `missing` of one file: the symbols in the order `symbols`, the
\* candidates of each in the order `orders` gives.
RECURSIVE MissingOf(_, _, _, _, _)
MissingOf(symbols, orders, current_imports, index, file_path) ==
  IF symbols = <<>> THEN <<>>
  ELSE LET symbol == Head(symbols)
           rest == MissingOf(Tail(symbols), orders, current_imports, index, file_path)
       IN IF symbol \notin current_imports /\ symbol \in DOMAIN index
          THEN LET best_module == choose_best_module(orders[symbol], file_path)
               IN IF Truthy(best_module)
                  THEN << <<symbol, best_module>> >> \o rest
                  ELSE rest
          ELSE rest

\* One iteration of the loop of analyze_missing_imports.
AnalyzeStep ==
  /\ pc = "analyze"
  /\ idx <= Len(python_files)
  /\ LET file_path == python_files[idx]
         tree == parse_file_safely(disk[file_path])
         used == Get(used_symbols, file_path)
     IN IF tree = None
        THEN UNCHANGED <<used_symbols, missing_imports>>
        ELSE /\ used_symbols' =
                  IF file_path \in DOMAIN used_symbols THEN used_symbols
                  ELSE (file_path :> {}) @@ used_symbols
             /\ \E symbols \in Orderings(used) :
                  \E orders \in [used -> UNION {Orderings(Get(imports_map, s)) : s \in used}] :
                    /\ \A s \in used : Range(orders[s]) = Get(imports_map, s)
                                       /\ Len(orders[s]) = Cardinality(Get(imports_map, s))
                    /\ LET missing == MissingOf(symbols, orders, get_current_imports(tree),
                                                imports_map, file_path)
                       IN missing_imports' =
                            IF missing # <<>>
                            THEN Append(missing_imports, <<file_path, missing>>)
                            ELSE missing_imports
  /\ idx' = idx + 1
  /\ UNCHANGED <<disk, args, pc, python_files, imports_map, defined_symbols,
                 response, prompts, report, run, disk0, prev, resolver>>

\* analyze_missing_imports returns; generate_fixes and
\* show_common_missing_imports print the findings; scan_project returns to
\* main, which calls apply_fixes if args.apply.
GenerateFixes ==
  /\ pc = "analyze"
  /\ idx > Len(python_files)
  /\ pc' = AfterScan
  /\ idx' = 1
  /\ UNCHANGED <<disk, args, python_files, imports_map, defined_symbols,
                 used_symbols, missing_imports, response, prompts, report, run,
                 disk0, prev, resolver>>

(***************************************************************************)
(* apply_fixes and add_imports_to_file                                     *)
(***************************************************************************)

\* apply_fixes without auto_fix: one input(), and a refusal returns.
Prompt ==
  /\ pc = "prompt"
  /\ \E r \in Responses :
       /\ response' = r
       /\ pc' = IF ~Confirmed(r) \/ missing_imports = <<>> THEN "done" ELSE "apply"
  /\ prompts' = prompts + 1
  /\ idx' = 1
  /\ UNCHANGED <<disk, args, python_files, imports_map, defined_symbols,
                 used_symbols, missing_imports, report, run, disk0, prev, resolver>>

\* The proper prefixes a failed write may leave in the truncated file.
PartialWrites(text) == {SubSeq(text, 1, n) : n \in 0..(Len(text) - 1)}

\* add_imports_to_file for one entry of missing_imports; any step of its
\* I/O may raise, and the except clause prints the failure.
AddImportsToFile ==
  /\ pc = "apply"
  /\ idx <= Len(missing_imports)
  /\ LET file_path == missing_imports[idx][1]
         missing == missing_imports[idx][2]
         text == Rewritten(disk[file_path], missing)
     IN \/ \* open(file_path, 'r') or f.read() raises
           /\ report' = Append(report, <<file_path, "failed">>)
           /\ disk' = disk
        \/ \* open(file_path, 'w') raises: nothing was truncated
           /\ report' = Append(report, <<file_path, "failed">>)
           /\ disk' = disk
        \/ \* open(file_path, 'w') truncated the file, f.write or close raises
           /\ \E partial \in PartialWrites(text) :
                disk' = [disk EXCEPT ![file_path] = partial]
           /\ report' = Append(report, <<file_path, "failed">>)
        \/ \* the file is written
           /\ disk' = [disk EXCEPT ![file_path] = text]
           /\ report' = Append(report, <<file_path, "fixed">>)
  /\ idx' = idx + 1
  /\ pc' = IF idx = Len(missing_imports) THEN "done" ELSE "apply"
  /\ UNCHANGED <<args, python_files, imports_map, defined_symbols, used_symbols,
                 missing_imports, response, prompts, run, disk0, prev, resolver>>

\* main is run again over the project as the run before left it.
Rerun ==
  /\ pc = "done"
  /\ run < MaxRuns
  /\ run' = run + 1
  /\ prev' = [index |-> imports_map, missing |-> missing_imports,
              report |-> report, disk |-> disk0]
  /\ disk0' = disk
  /\ pc' = "start"
  /\ python_files' = <<>>
  /\ idx' = 1
  /\ imports_map' = EmptyMap
  /\ defined_symbols' = EmptyMap
  /\ used_symbols' = EmptyMap
  /\ missing_imports' = <<>>
  /\ response' = None
  /\ prompts' = 0
  /\ report' = <<>>
  /\ UNCHANGED <<disk, args, resolver>>

Next ==
  \/ FindPythonFiles
  \/ BuildStep
  \/ BuildDone
  \/ AnalyzeStep
  \/ GenerateFixes
  \/ Prompt
  \/ AddImportsToFile
  \/ Rerun

Spec == Init /\ [][Next]_vars

(***************************************************************************)
(* The resolver on its own: choose_best_module called on a candidate set   *)
(* in the orders in which a Python set may be iterated.                    *)
(***************************************************************************)

PathG == << <<".", "g">>, <<"m", ".", "p", "y">> >>
PathAB == << <<"a", "b", ".", "p", "y">> >>
PathABC == << <<"a">>, <<"b">>, <<"c", ".", "p", "y">> >>
PathAInit == << <<"a">>, InitPy >>

\* The modules of the files a project may hold.
CandidateModules ==
  {path_to_module_name(p) :
     p \in {PathA, PathB, PathInit, PathAC, PathG, PathAB, PathABC, PathAInit}}

ConsumingFiles == {PathB, PathAC, PathABC}

InitResolve ==
  /\ r_set \in {S \in SUBSET CandidateModules : Cardinality(S) <= MaxCandidates}
  /\ r_file \in ConsumingFiles
  /\ r_calls = <<>>
  /\ disk = EmptyMap
  /\ disk0 = EmptyMap
  /\ args = [apply |-> FALSE, fix |-> FALSE]
  /\ pc = "resolve"
  /\ Fresh
  /\ response = None
  /\ prompts = 0
  /\ report = <<>>
  /\ run = 1
  /\ prev = NoHistory

\* One call of choose_best_module(symbol, r_set, r_file).
Resolve ==
  /\ pc = "resolve"
  /\ Len(r_calls) < MaxCalls
  /\ \E order \in Orderings(r_set) :
       r_calls' = Append(r_calls, choose_best_module(order, r_file))
  /\ UNCHANGED <<disk, args, pc, analyzer, response, prompts, report, run,
                 disk0, prev, r_set, r_file>>

SpecResolve == InitResolve /\ [][Resolve]_vars

(***************************************************************************)
(* The applier on its own: add_imports_to_file on any short file and a     *)
(* missing list.                                                           *)
(***************************************************************************)

\* The lines a file may hold.
LineKinds ==
  { <<>>, <<Ws>>, <<Comment>>, <<Tq>>, <<Doc1>>, <<Import(ModOs)>>,
    <<From(ModA, <<f>>)>>, <<Use(f)>>, <<Ws, Comment, Ws>> }

ApplyTexts ==
  UNION {{JoinLines(lines) : lines \in [1..n -> LineKinds]} : n \in 0..MaxLines}

MissingLists ==
  { << <<f, ModA>> >>,
    << <<f, ModA>>, <<K, ModA>> >>,
    << <<K, path_to_module_name(PathAC)>>, <<f, ModA>> >> }

InitApply ==
  /\ disk \in {(PathB :> text) : text \in ApplyTexts}
  /\ disk0 = disk
  /\ args = [apply |-> TRUE, fix |-> TRUE]
  /\ pc = "apply"
  /\ python_files = <<PathB>>
  /\ idx = 1
  /\ imports_map = EmptyMap
  /\ defined_symbols = EmptyMap
  /\ used_symbols = EmptyMap
  /\ missing_imports \in {<< <<PathB, m>> >> : m \in MissingLists}
  /\ response = None
  /\ prompts = 0
  /\ report = <<>>
  /\ run = 1
  /\ prev = NoHistory
  /\ ResolverIdle

SpecApply == InitApply /\ [][AddImportsToFile]_vars

(***************************************************************************)
(* What the properties speak of                                            *)
(***************************************************************************)

\* The analysis of this run is over.
AnalysisComplete == pc \in {"prompt", "apply", "done"}

\* The discovered files that parse, and those that do not.
Good == {p \in Range(python_files) : ast_parse(disk0[p]) # None}
Failing == Range(python_files) \ Good

\* The missing list recorded for file p (empty when there is none).
ListOf(found, p) ==
  IF \E k \in 1..Len(found) : found[k][1] = p
  THEN found[CHOOSE k \in 1..Len(found) : found[k][1] = p][2]
  ELSE <<>>

EntriesOf(found, p) == Range(ListOf(found, p))

\* The names a file binds by a def, an async def, a class or an assignment.
BoundByDefinition(tree) ==
  UNION {IF tree[k][1] \in {"def", "asyncdef", "class", "assign"}
         THEN Range(tree[k][3]) ELSE {} : k \in 1..Len(tree)}

\* The names a file binds by any import statement, `from . import S` too.
BoundByImport(tree) ==
  UNION {IF tree[k][1] = "import" THEN {Split(tree[k][2], ".")[1]}
         ELSE IF tree[k][1] = "from" THEN Range(tree[k][3])
         ELSE {} : k \in 1..Len(tree)}

\* lower-cased, the response is exactly y or yes
Yes(r) == Lower(r) \in { <<"y">>, <<"y", "e", "s">> }

\* now is orig with the lines new inserted at some index.
IsInsertion(orig, now, new) ==
  \E i \in 0..Len(orig) :
    now = SubSeq(orig, 1, i) \o new \o SubSeq(orig, i + 1, Len(orig))

(***************************************************************************)
(* C1: no false positives. A symbol that a file defines (def, async def,   *)
(* class, assigned name) or imports by any import statement never has an   *)
(* entry in that file's missing-import list.                               *)
(***************************************************************************)
NoFalsePositives ==
  \A k \in 1..Len(missing_imports) :
    LET tree == ast_parse(disk0[missing_imports[k][1]])
    IN \A e \in Range(missing_imports[k][2]) :
         e[1] \notin BoundByDefinition(tree) \cup BoundByImport(tree)

AllFixed(rep, found) ==
  /\ found # <<>>
  /\ Len(rep) = Len(found)
  /\ \A k \in 1..Len(rep) : rep[k][2] = "fixed"

(***************************************************************************)
(* C2: idempotence. When a run has applied all its fixes and every write   *)
(* succeeded, the analysis of the next run has no entry for a (file,       *)
(* symbol) pair whose symbol had exactly one candidate module.             *)
(***************************************************************************)
Idempotent ==
  (run > 1 /\ AnalysisComplete /\ AllFixed(prev.report, prev.missing)) =>
    \A k \in 1..Len(prev.missing) :
      \A e \in Range(prev.missing[k][2]) :
        Cardinality(prev.index[e[1]]) = 1 =>
          \A e2 \in EntriesOf(missing_imports, prev.missing[k][1]) : e2[1] # e[1]

(***************************************************************************)
(* C3: all-or-nothing rewrite per file. After apply_fixes, every file with *)
(* entries either holds its original text with the new import lines        *)
(* inserted, or holds its original text and a failure was reported for it; *)
(* and every file of the batch was attempted.                              *)
(***************************************************************************)
AllOrNothing ==
  (pc = "done" /\ report # <<>>) =>
    /\ Len(report) = Len(missing_imports)
    /\ \A k \in 1..Len(report) :
         LET p == missing_imports[k][1]
         IN /\ report[k][1] = p
            /\ \/ /\ report[k][2] = "fixed"
                  /\ IsInsertion(SplitLines(disk0[p]), SplitLines(disk[p]),
                                 NewImports(missing_imports[k][2]))
               \/ /\ report[k][2] = "failed"
                  /\ disk[p] = disk0[p]

(***************************************************************************)
(* C4: non-destructive rewrite. A successful add_imports_to_file leaves    *)
(* original[0..i) + new_imports + original[i..) for some i, with one       *)
(* import line per distinct chosen module and every original line kept     *)
(* verbatim and in order.                                                  *)
(***************************************************************************)
NonDestructive ==
  \A k \in 1..Len(report) :
    report[k][2] = "fixed" =>
      LET p == report[k][1]
          missing == missing_imports[k][2]
          modules == {missing[j][2] : j \in 1..Len(missing)}
          n == Cardinality(modules)
          orig == SplitLines(disk0[p])
          now == SplitLines(disk[p])
      IN \E i \in 0..Len(orig) :
           /\ Len(now) = Len(orig) + n
           /\ SubSeq(now, 1, i) = SubSeq(orig, 1, i)
           /\ SubSeq(now, i + n + 1, Len(now)) = SubSeq(orig, i + 1, Len(orig))
           /\ \A j \in (i + 1)..(i + n) :
                Len(now[j]) = 1 /\ now[j][1][1] = "from" /\ now[j][1][2] \in modules
           /\ \A m \in modules :
                \E j \in (i + 1)..(i + n) :
                  /\ now[j][1][2] = m
                  /\ Range(now[j][1][3]) = {missing[q][1] : q \in {q \in 1..Len(missing) : missing[q][2] = m}}

\* A file rewritten in its middle with the import lines of two modules.
NonDestructiveWitness ==
  /\ report # <<>>
  /\ report[1][2] = "fixed"
  /\ Cardinality({missing_imports[1][2][j][2] : j \in 1..Len(missing_imports[1][2])}) = 2
  /\ InsertLine(SplitLines(disk0[PathB])) = 1
  /\ Len(SplitLines(disk0[PathB])) = 3
  /\ disk # disk0

(***************************************************************************)
(* C5: the confirmation gates the whole batch. No file is written unless   *)
(* --apply is set and either --fix is set or the one response, lower-cased,*)
(* is y or yes; on any other response nothing is attempted; on an          *)
(* affirmative response every file with entries is attempted, and there is *)
(* never a second prompt.                                                  *)
(***************************************************************************)
ConfirmationGates ==
  /\ prompts <= 1
  /\ (disk # disk0 \/ report # <<>>) =>
       args.apply /\ (args.fix \/ Yes(response))
  /\ (pc = "done" /\ args.apply /\ (args.fix \/ Yes(response))) =>
       /\ Len(report) = Len(missing_imports)
       /\ \A k \in 1..Len(report) : report[k][1] = missing_imports[k][1]
       /\ args.fix => prompts = 0

\* Yes typed at the prompt, and two files were then rewritten.
ConfirmationGatesWitness ==
  /\ pc = "done"
  /\ ~args.fix
  /\ response = <<"Y", "e", "s">>
  /\ prompts = 1
  /\ Len(report) = 2
  /\ \A k \in 1..2 : report[k][2] = "fixed" /\ disk[report[k][1]] # disk0[report[k][1]]

\* scan_project has just returned to main.
ScanReturned == AnalysisComplete /\ report = <<>> /\ prompts = 0

\* The index entry of s in the project made of the files of DOMAIN defs.
CandidatesAmong(defs, s) ==
  {path_to_module_name(p) : p \in {q \in DOMAIN defs : s \in defs[q]}}

\* The entries the detector owes file p, whose tree is tree, in that project.
EntriesAmong(defs, p, tree) ==
  LET wanted == {s \in extract_used_symbols(tree) \ get_current_imports(tree) :
                   CandidatesAmong(defs, s) # {}}
      best == [s \in wanted |->
                 choose_best_module(
                   CHOOSE order \in Orderings(CandidatesAmong(defs, s)) : TRUE, p)]
  IN {<<s, best[s]>> : s \in {x \in wanted : Truthy(best[x])}}

AllSymbols == {f, K, ModA, <<"o">>}

(***************************************************************************)
(* C6: a parse failure is local. scan_project completes; a file that does  *)
(* not parse adds no module to the index and gets no entries; the entries  *)
(* of every other file are those of the analysis of the project without    *)
(* the failing files.                                                      *)
(***************************************************************************)
ParseFailureLocal ==
  ScanReturned =>
    LET trees == [p \in Range(python_files) |-> ast_parse(disk0[p])]
        good == {p \in Range(python_files) : trees[p] # None}
        defs == [p \in good |-> extract_defined_symbols(trees[p])]
    IN /\ \A s \in AllSymbols \cup DOMAIN imports_map :
            Get(imports_map, s) = CandidatesAmong(defs, s)
       /\ \A p \in Range(python_files) \ good :
            /\ EntriesOf(missing_imports, p) = {}
            /\ p \notin DOMAIN defined_symbols
       /\ \A p \in good :
            LET owed == EntriesAmong(defs, p, trees[p])
            IN /\ EntriesOf(missing_imports, p) = owed
               /\ Len(ListOf(missing_imports, p)) = Cardinality(owed)

\* A file that defines f and K does not parse, and another file has entries.
ParseFailureLocalWitness ==
  /\ ScanReturned
  /\ PathAC \in Failing
  /\ PathB \in Good
  /\ EntriesOf(missing_imports, PathB) = {<<f, ModA>>}

(***************************************************************************)
(* C7: detector emission. For a parsed file and a used symbol outside its  *)
(* current set (what it defines or imports), there is exactly one entry,   *)
(* with a candidate module, whenever the symbol has a candidate - also     *)
(* when the candidate is the empty module name of a root __init__.py - and *)
(* no entry when it has none.                                              *)
(***************************************************************************)
DetectorEmits ==
  AnalysisComplete =>
    \A p \in Good :
      LET tree == ast_parse(disk0[p])
          current == BoundByDefinition(tree) \cup BoundByImport(tree)
          list == ListOf(missing_imports, p)
      IN \A s \in Get(used_symbols, p) \ current :
           LET at == {k \in 1..Len(list) : list[k][1] = s}
           IN IF Get(imports_map, s) # {}
              THEN /\ Cardinality(at) = 1
                   /\ \A k \in at : list[k][2] \in imports_map[s]
              ELSE at = {}

ImportOrComment(line) == StartsImport(Strip(line)) \/ StartsHash(Strip(line))

EndsBlockClaimed(line) == Strip(line) # <<>> /\ ~ImportOrComment(line)

EndsBlockAmended(line) == EndsBlockClaimed(line) /\ ~StartsTripleQuote(Strip(line))

\* The index after the last import or comment line before line `stop`.
PointBefore(lines, stop) ==
  LET block == {i \in 1..(stop - 1) : ImportOrComment(lines[i])}
  IN IF block = {} THEN 0 ELSE CHOOSE i \in block : \A j \in block : j <= i

PointClaimed(lines) ==
  LET ends == {i \in 1..Len(lines) : EndsBlockClaimed(lines[i])}
  IN PointBefore(lines, IF ends = {} THEN Len(lines) + 1
                        ELSE CHOOSE i \in ends : \A j \in ends : i <= j)

PointAmended(lines) ==
  LET ends == {i \in 1..Len(lines) : EndsBlockAmended(lines[i])}
  IN PointBefore(lines, IF ends = {} THEN Len(lines) + 1
                        ELSE CHOOSE i \in ends : \A j \in ends : i <= j)

InsertedAt(k, point) ==
  LET p == report[k][1]
      orig == SplitLines(disk0[p])
  IN SplitLines(disk[p]) =
       SubSeq(orig, 1, point) \o NewImports(missing_imports[k][2])
         \o SubSeq(orig, point + 1, Len(orig))

IndexComplete ==
  pc \in {"analyze", "prompt", "apply", "done"} =>
    \A p \in Good :
      LET tree == ast_parse(disk0[p])
      IN \A s \in BoundByDefinition(tree) \cup BoundByImport(tree) :
           path_to_module_name(p) \in Get(imports_map, s)

\* Frozenness: no step of detection, reporting or applying changes the index.
IndexFrozen ==
  [][(pc \in {"analyze", "prompt", "apply"}) => (imports_map' = imports_map)]_vars

(***************************************************************************)
(* C9: the index is complete and frozen before detection. From the start   *)
(* of detection to the end of the run, every symbol a parsed file defines  *)
(* (function, async function, class, variable binding, import alias) has   *)
(* the file's module in its index entry, and no step changes the index.    *)
(***************************************************************************)
IndexCompleteAndFrozen == []IndexComplete /\ IndexFrozen

(***************************************************************************)
(* C10: deterministic resolution. For a non-empty candidate set every call *)
(* returns one member of the set with the highest score, the same member   *)
(* whatever the order of the candidates; for the empty set, None.          *)
(***************************************************************************)
DeterministicResolution ==
  /\ \A i \in 1..Len(r_calls) :
       IF r_set = {} THEN r_calls[i] = None
       ELSE /\ r_calls[i] \in r_set
            /\ \A m \in r_set : Score(m, r_file) <= Score(r_calls[i], r_file)
  /\ \A i, j \in 1..Len(r_calls) : r_calls[i] = r_calls[j]

\* Two calls on a set whose two best candidates have the same score.
DeterministicResolutionWitness ==
  /\ Len(r_calls) = 2
  /\ \E m1, m2 \in r_set :
       /\ m1 # m2
       /\ Score(m1, r_file) = Score(m2, r_file)
       /\ \A m \in r_set : Score(m, r_file) <= Score(m1, r_file)

====
